---- MODULE Spec2Model ----
(***************************************************************************)
(* node-webrtc wrapper layer: MediaStream (mediastream.cc, kept here as    *)
(* src/unnamed/part_000) and RTCRtpReceiver (src/src/rtcrtpreceiver.cc).   *)
(*                                                                         *)
(* Native handles (streams, tracks, receivers) and factories are small     *)
(* naturals; their order is the order std::map sees on the handles.        *)
(* Wrapper objects live in three heaps (sequences); a wrapper's pointer is *)
(* its index in its heap, 0 is the null pointer.                           *)
(***************************************************************************)
EXTENDS Naturals, Sequences, FiniteSets

\* ------------------------------------------------------------- bounds
NumFactories == 2
NumStreams == 2
NumTracks == 3
MaxStreamWrappers == 2
MaxReceiverWrappers == 1
MaxArgs == 3
MaxSources == 2
MaxNativeTracks == 3
MaxCallDepth == 2

Factories == 1..NumFactories
StreamHandles == 1..NumStreams
TrackHandles == 1..NumTracks
ReceiverHandles == TrackHandles
StreamPtrs == 1..MaxStreamWrappers
TrackPtrs == 1..(NumTracks + MaxReceiverWrappers)
ReceiverPtrs == 1..MaxReceiverWrappers

VARIABLES
  _streams,    \* MediaStream::_streams: native stream handle -> MediaStream*
  msHeap,      \* the MediaStream objects ever constructed, by pointer
  _tracks,     \* MediaStreamTrack::_tracks: native track handle -> MediaStreamTrack*
  mstHeap,     \* the MediaStreamTrack objects ever constructed, by pointer
  rcvHeap,     \* the RTCRtpReceiver objects ever constructed, by pointer
  audio,       \* native audio track vector of each native stream
  video,       \* native video track vector of each native stream
  scriptRefs,  \* the MediaStream wrappers script code still holds a reference to
  callStack,   \* the calls the scripting thread is inside of, innermost last
  tasks,       \* the receivers whose close notification waits in the event loop
  ended,       \* the native tracks whose state() is kEnded; the others are kLive
  ret          \* the last registry, constructor or receiver call and its outcome

vars ==
  <<_streams, msHeap, _tracks, mstHeap, rcvHeap, audio, video, scriptRefs,
    callStack, tasks, ended, ret>>

\* ------------------------------------------------------------ helpers
Range(f) == {f[x] : x \in DOMAIN f}

Elems(vec) == {vec[i] : i \in 1..Len(vec)}

Min(S) == CHOOSE x \in S : \A y \in S : x <= y

SeqsUpTo(S, n) == UNION {[1..k -> S] : k \in 0..n}

Put(f, k, v) == [x \in DOMAIN f \cup {k} |-> IF x = k THEN v ELSE f[x]]

Erase(f, k) == [x \in DOMAIN f \ {k} |-> f[x]]

EmptyMap == [x \in {} |-> 0]

\* The arguments a constructor call can carry: an internal token (v8::External)
\* or any other script value.
ArgKinds == {"External", "Value"}
ArgLists == SeqsUpTo(ArgKinds, MaxArgs)
TokenArgs == <<"External", "External">>

NoCall ==
  [op |-> "none", self |-> 0, arg |-> 0, value |-> <<>>,
   thrown |-> "none", promise |-> "none", queried |-> FALSE, native |-> <<>>,
   factory |-> 0]

\* ------------------------------------------------- MediaStream: construction
\* A mutant of the guard: only the number of arguments is looked at.
InvalidConstruction_LengthOnly(args) == Len(args) # 2

\* if (info.Length() != 2 || !info[0]->IsExternal() || !info[1]->IsExternal())
InvalidConstruction(args) ==
  IF Len(args) # 2 THEN TRUE
  ELSE IF args[1] # "External" THEN TRUE
  ELSE args[2] # "External"

\* new MediaStream(factory, stream); obj->Wrap(info.This()); obj->Ref():
\* Wrap leaves refs_ = 0 and the handle weak, Ref() makes it 1 and the handle strong.
NewMediaStream(f, h) == [factory |-> f, stream |-> h, refs |-> 1, alive |-> TRUE]

\* NAN_METHOD(MediaStream::New) on a heap: the heap after the call, the object
\* constructed (0 if none) and what was thrown.
MediaStream_New(heap, args, f, h) ==
  IF InvalidConstruction(args)
    THEN [heap |-> heap, obj |-> 0, thrown |-> "TypeError"]
    ELSE [heap |-> Append(heap, NewMediaStream(f, h)), obj |-> Len(heap) + 1,
          thrown |-> "none"]

\* --------------------------------------------------- MediaStream: registry
\* GetOrCreate with an entry for the stream (lines 161-163): return _streams[stream].
MediaStream_GetOrCreate_Hit(reg, heap, f, h) ==
  [reg |-> reg, heap |-> heap, obj |-> reg[h]]

\* A mutant of the miss path: the newest wrapper, when there is one, is
\* registered once more and nothing is constructed.
MediaStream_GetOrCreate_Miss_Alias(reg, heap, f, h) ==
  IF heap # <<>>
    THEN [reg |-> Put(reg, h, Len(heap)), heap |-> heap, obj |-> Len(heap)]
    ELSE LET c == MediaStream_New(heap, TokenArgs, f, h)
         IN [reg |-> Put(reg, h, c.obj), heap |-> c.heap, obj |-> c.obj]

\* GetOrCreate without an entry at its lookup (lines 164-170), on the registry
\* and heap found when the constructor returns: the wrapper NewInstance
\* constructed is stored with _streams[stream] = mediaStream and returned.
MediaStream_GetOrCreate_Miss(reg, heap, f, h) ==
  LET c == MediaStream_New(heap, TokenArgs, f, h)
  IN [reg |-> Put(reg, h, c.obj), heap |-> c.heap, obj |-> c.obj]

\* A mutant of Release: the first entry is erased when no entry matches.
MediaStream_Release_EraseFirst(reg, w) ==
  LET hits == {k \in DOMAIN reg : reg[k] = w}
  IN IF hits # {} THEN Erase(reg, Min(hits))
     ELSE IF DOMAIN reg # {} THEN Erase(reg, Min(DOMAIN reg)) ELSE reg

\* for (auto pair : _streams) if (pair.second == stream) { erase(pair.first); return; }
\* The map is walked in key order and only the first match is erased.
MediaStream_Release(reg, w) ==
  LET hits == {k \in DOMAIN reg : reg[k] = w}
  IN IF hits = {} THEN reg ELSE Erase(reg, Min(hits))

\* A mutant of the destructor: it leaves the registry alone.
MediaStream_Destructor_Skip(reg, w) == reg

\* MediaStream::~MediaStream()
MediaStream_Destructor(reg, w) == MediaStream_Release(reg, w)

\* The collector's weak callback: an ObjectWrap is deleted only when its handle
\* is weak (refs_ = 0) and script code no longer reaches it.
Collectable(heap, held, w) ==
  /\ w \in 1..Len(heap)
  /\ heap[w].alive
  /\ heap[w].refs = 0
  /\ w \notin held

RECURSIVE DestroyAll(_, _)
DestroyAll(reg, ws) ==
  IF ws = {} THEN reg
  ELSE LET w == Min(ws) IN DestroyAll(MediaStream_Destructor(reg, w), ws \ {w})

\* ------------------------------------------------------ native engine
\* webrtc::MediaStreamTrackInterface::kind() and id() of native track t.
TrackKind(t) == IF t % 2 = 1 THEN "audio" ELSE "video"

TrackId(t) == t

\* The identifiers getTrackById can be asked for; 0 is the identifier of no track.
Labels == {0} \cup {TrackId(t) : t \in TrackHandles}

\* webrtc::RtpReceiverInterface::track() of native receiver r: the engine has one
\* receiver per remote track, and they share a handle here.
ReceiverTrack(r) == r

\* webrtc::MediaStreamInterface::FindAudioTrack / FindVideoTrack on one native
\* vector: the first track with that identifier, 0 (null) when there is none.
NativeFind(vec, label) ==
  LET hits == {i \in 1..Len(vec) : TrackId(vec[i]) = label}
  IN IF hits = {} THEN 0 ELSE vec[Min(hits)]

\* webrtc::MediaStreamInterface::AddTrack on one native vector: refused when a
\* track with that identifier is already there, appended otherwise.
NativeAdd(vec, t) ==
  IF NativeFind(vec, TrackId(t)) # 0 THEN vec ELSE Append(vec, t)

\* webrtc::MediaStreamInterface::RemoveTrack on one native vector.
NativeRemove(vec, t) ==
  LET Keep(x) == TrackId(x) # TrackId(t) IN SelectSeq(vec, Keep)

\* The sources a native receiver reports: source i has the i-th type.
SourceTypes == {"CSRC", "SSRC"}
MakeSources(types) == [i \in 1..Len(types) |-> [type |-> types[i], id |-> i]]
SourceLists == {MakeSources(ty) : ty \in SeqsUpTo(SourceTypes, MaxSources)}

\* ------------------------------------------------------ MediaStreamTrack
NewMediaStreamTrack(f, t) == [factory |-> f, track |-> t]

\* NAN_METHOD(MediaStreamTrack::New), as RTCRtpReceiver::New calls it.
MediaStreamTrack_New(heap, args, f, t) ==
  IF InvalidConstruction(args)
    THEN [heap |-> heap, obj |-> 0, thrown |-> "TypeError"]
    ELSE [heap |-> Append(heap, NewMediaStreamTrack(f, t)), obj |-> Len(heap) + 1,
          thrown |-> "none"]

\* MediaStreamTrack::GetOrCreate(factory, track): the track registry.
MediaStreamTrack_GetOrCreate(reg, heap, f, t) ==
  IF t \in DOMAIN reg
    THEN [reg |-> reg, heap |-> heap, obj |-> reg[t]]
    ELSE LET c == MediaStreamTrack_New(heap, TokenArgs, f, t)
         IN [reg |-> Put(reg, t, c.obj), heap |-> c.heap, obj |-> c.obj]

\* --------------------------------------------- MediaStream: track accessors
\* for (auto const& track : vec) tracks.push_back(MediaStreamTrack::GetOrCreate(_factory, track));
\* started from the registry, heap and result vector of the loops before it.
RECURSIVE WrapEach(_, _, _)
WrapEach(acc, f, vec) ==
  IF vec = <<>> THEN acc
  ELSE LET r == MediaStreamTrack_GetOrCreate(acc.reg, acc.heap, f, Head(vec))
       IN WrapEach([reg |-> r.reg, heap |-> r.heap, value |-> Append(acc.value, r.obj)],
                   f, Tail(vec))

Start(reg, heap) == [reg |-> reg, heap |-> heap, value |-> <<>>]

MediaStream_GetAudioTracks(self, reg, heap, au, vi) ==
  WrapEach(Start(reg, heap), self.factory, au[self.stream])

MediaStream_GetVideoTracks(self, reg, heap, au, vi) ==
  WrapEach(Start(reg, heap), self.factory, vi[self.stream])

\* A mutant of GetTracks: the video loop runs before the audio loop.
MediaStream_GetTracks_VideoFirst(self, reg, heap, au, vi) ==
  WrapEach(WrapEach(Start(reg, heap), self.factory, vi[self.stream]),
           self.factory, au[self.stream])

MediaStream_GetTracks(self, reg, heap, au, vi) ==
  WrapEach(WrapEach(Start(reg, heap), self.factory, au[self.stream]),
           self.factory, vi[self.stream])

\* Both lookups of GetTrackById call FindAudioTrack; the return value is set by
\* each lookup that finds a track, and stays undefined (<<>>) otherwise.
MediaStream_GetTrackById(self, label, reg, heap, au, vi) ==
  LET audioTrack == NativeFind(au[self.stream], label)
      a == IF audioTrack # 0
             THEN WrapEach(Start(reg, heap), self.factory, <<audioTrack>>)
             ELSE Start(reg, heap)
      videoTrack == NativeFind(au[self.stream], label)
      b == IF videoTrack # 0
             THEN WrapEach(Start(a.reg, a.heap), self.factory, <<videoTrack>>)
             ELSE a
  IN b

\* A mutant of AddTrack: every track goes to the audio vector.
MediaStream_AddTrack_AlwaysAudio(self, track, au, vi) ==
  [au |-> [au EXCEPT ![self.stream] = NativeAdd(@, track)], vi |-> vi]

MediaStream_AddTrack(self, track, au, vi) ==
  IF TrackKind(track) = "audio"
    THEN [au |-> [au EXCEPT ![self.stream] = NativeAdd(@, track)], vi |-> vi]
    ELSE [au |-> au, vi |-> [vi EXCEPT ![self.stream] = NativeAdd(@, track)]]

MediaStream_RemoveTrack(self, track, au, vi) ==
  IF TrackKind(track) = "audio"
    THEN [au |-> [au EXCEPT ![self.stream] = NativeRemove(@, track)], vi |-> vi]
    ELSE [au |-> au, vi |-> [vi EXCEPT ![self.stream] = NativeRemove(@, track)]]

\* for (auto const& track : vec) active = active || track->state() == kLive;
RECURSIVE AnyLive(_, _, _)
AnyLive(active, vec, en) ==
  IF vec = <<>> THEN active
  ELSE AnyLive(active \/ Head(vec) \notin en, Tail(vec), en)

\* A mutant of GetActive: the loop over the video tracks is left out.
MediaStream_GetActive_AudioOnly(self, au, vi, en) ==
  AnyLive(FALSE, au[self.stream], en)

\* NAN_GETTER(MediaStream::GetActive)
MediaStream_GetActive(self, au, vi, en) ==
  AnyLive(AnyLive(FALSE, au[self.stream], en), vi[self.stream], en)

\* NAN_METHOD(MediaStream::Clone): Nan::ThrowError, nothing else.
MediaStream_Clone(self) == [thrown |-> "Error", promise |-> "none"]

\* ------------------------------------------------------- RTCRtpReceiver
\* The declarations rtcrtpreceiver.h can give the member: with an initialiser,
\* or without one.
MemberDeclarations == {"bool _closed = false;", "bool _closed;"}

\* The declaration of a receiver whose initial state is Open.
DeclaredOpen == "bool _closed = false;"

\* The values _closed can hold in a receiver just constructed. The constructor's
\* initialiser list names _factory, _receiver and _track and its body is empty,
\* so the flag has the value its declaration gives it, and without an
\* initialiser it holds what the allocation held.
ClosedAtConstruction(decl) ==
  IF decl = "bool _closed = false;" THEN {FALSE} ELSE BOOLEAN

\* RTCRtpReceiver::RTCRtpReceiver(factory, receiver, track), with _closed
\* reading as `closed`.
NewRTCRtpReceiver(f, r, tw, closed) ==
  [factory |-> f, receiver |-> r, track |-> tw, closed |-> closed]

\* NAN_METHOD(RTCRtpReceiver::New): the track wrapper comes from the
\* MediaStreamTrack constructor, not from the track registry.
RTCRtpReceiver_New(rheap, theap, args, f, r, closed) ==
  IF InvalidConstruction(args)
    THEN [rheap |-> rheap, theap |-> theap, obj |-> 0, thrown |-> "TypeError"]
    ELSE LET track == ReceiverTrack(r)
             c == MediaStreamTrack_New(theap, <<args[1], "External">>, f, track)
         IN [rheap |-> Append(rheap, NewRTCRtpReceiver(f, r, c.obj, closed)),
             theap |-> c.heap, obj |-> Len(rheap) + 1, thrown |-> "none"]

\* A mutant of GetTrack: a Closed receiver reports no track.
RTCRtpReceiver_GetTrack_OpenOnly(self) == IF self.closed THEN 0 ELSE self.track

\* self->_track->handle(): the wrapper stored by the constructor.
RTCRtpReceiver_GetTrack(self) == self.track

\* A mutant of OnPeerConnectionClosed: the flag is flipped.
RTCRtpReceiver_OnPeerConnectionClosed_Flip(self) ==
  [self EXCEPT !.closed = ~self.closed]

\* void RTCRtpReceiver::OnPeerConnectionClosed() { _closed = true; }
RTCRtpReceiver_OnPeerConnectionClosed(self) == [self EXCEPT !.closed = TRUE]

\* RTCRtpReceiver::Init: the methods Nan::SetPrototypeMethod installs on the
\* prototype, and the one Nan::SetMethod installs on the constructor.
RTCRtpReceiver_PrototypeMethods ==
  {"getParameters", "getContributingSources", "getSynchronizationSources"}

RTCRtpReceiver_StaticMethods == {"getCapabilities"}

\* NAN_METHOD(RTCRtpReceiver::GetCapabilities): Nan::ThrowError, nothing else.
RTCRtpReceiver_GetCapabilities == [thrown |-> "Error", promise |-> "none"]

\* NAN_METHOD(RTCRtpReceiver::GetStats): a resolver is made, rejected, and its
\* promise returned.
RTCRtpReceiver_GetStats(self) == [thrown |-> "none", promise |-> "rejected"]

IsCSRC(source) == source.type = "CSRC"
IsSSRC(source) == source.type = "SSRC"

\* A mutant of GetContributingSources: the closed flag is not looked at.
RTCRtpReceiver_GetContributingSources_Unguarded(self, native) ==
  [value |-> SelectSeq(native, IsCSRC), queried |-> TRUE]

\* The sources the call returns and whether it called _receiver->GetSources().
RTCRtpReceiver_GetContributingSources(self, native) ==
  IF ~self.closed
    THEN [value |-> SelectSeq(native, IsCSRC), queried |-> TRUE]
    ELSE [value |-> <<>>, queried |-> FALSE]

\* A mutant of GetSynchronizationSources: the type tested is CSRC, as in the
\* method above it.
RTCRtpReceiver_GetSynchronizationSources_CSRC(self, native) ==
  IF ~self.closed
    THEN [value |-> SelectSeq(native, IsCSRC), queried |-> TRUE]
    ELSE [value |-> <<>>, queried |-> FALSE]

RTCRtpReceiver_GetSynchronizationSources(self, native) ==
  IF ~self.closed
    THEN [value |-> SelectSeq(native, IsSSRC), queried |-> TRUE]
    ELSE [value |-> <<>>, queried |-> FALSE]

\* ---------------------------------------------------------------- Init
Init ==
  /\ _streams = EmptyMap
  /\ msHeap = <<>>
  /\ _tracks = EmptyMap
  /\ mstHeap = <<>>
  /\ rcvHeap = <<>>
  /\ audio = [s \in StreamHandles |-> <<>>]
  /\ video = [s \in StreamHandles |-> <<>>]
  /\ scriptRefs = {}
  /\ callStack = <<>>
  /\ tasks = {}
  /\ ended = {}
  /\ ret = NoCall

\* The MediaStream wrappers a method can be called on.
LiveStreams == {w \in 1..Len(msHeap) : msHeap[w].alive}

\* ------------------------------------------------ actions: stream registry
\* MediaStream::Release(w), for any pointer w, registered or not.
Release(w) ==
  /\ _streams' = MediaStream_Release(_streams, w)
  /\ ret' = [NoCall EXCEPT !.op = "Release", !.arg = w]
  /\ UNCHANGED <<callStack, tasks, ended,
                 msHeap, _tracks, mstHeap, rcvHeap, audio, video, scriptRefs>>

\* new MediaStream(...args): the public constructor, with any argument list. Only
\* a list of two tokens carries a factory, in the first, and a native stream, in
\* the second.
ConstructMediaStream(args) ==
  \E f \in Factories, h \in StreamHandles :
    /\ InvalidConstruction(args) => (f = 1 /\ h = 1)
    /\ ~InvalidConstruction(args) => Len(msHeap) < MaxStreamWrappers
    /\ LET c == MediaStream_New(msHeap, args, f, h)
       IN /\ msHeap' = c.heap
          /\ scriptRefs' = IF c.obj = 0 THEN scriptRefs ELSE scriptRefs \cup {c.obj}
          /\ ret' = [NoCall EXCEPT !.op = "MediaStream",
                                   !.value = IF c.obj = 0 THEN <<>> ELSE <<c.obj>>,
                                   !.thrown = c.thrown]
    /\ UNCHANGED <<callStack, tasks, ended, _streams, _tracks, mstHeap, rcvHeap, audio, video>>

\* GetOrCreate(f, h) up to its call of NewInstance (lines 160-168): with an entry
\* for h the call returns it; without one it goes into the constructor, where
\* Nan::AsyncResource("MediaStream") emits the async init hooks, so script code
\* can run before the call has inserted anything. The call is made by session
\* code, or by such script code while the innermost call is in its constructor.
GetOrCreate_Enter(f, h) ==
  /\ Len(callStack) < MaxCallDepth
  /\ \A i \in 1..Len(callStack) : callStack[i].op = "GetOrCreate"
  /\ IF h \in DOMAIN _streams
       THEN LET r == MediaStream_GetOrCreate_Hit(_streams, msHeap, f, h)
            IN /\ _streams' = r.reg
               /\ msHeap' = r.heap
               /\ scriptRefs' = scriptRefs \cup {r.obj}
               /\ ret' = [NoCall EXCEPT !.op = "GetOrCreate", !.arg = h,
                                        !.factory = f, !.value = <<r.obj>>]
               /\ UNCHANGED callStack
       ELSE /\ Len(msHeap) + Len(callStack) < MaxStreamWrappers
            /\ callStack' =
                 Append(callStack, [op |-> "GetOrCreate", factory |-> f, stream |-> h])
            /\ UNCHANGED <<_streams, msHeap, scriptRefs, ret>>
  /\ UNCHANGED <<_tracks, mstHeap, rcvHeap, audio, video, tasks, ended>>

\* The rest of the innermost GetOrCreate (lines 167-170): the constructor returns
\* the new wrapper, _streams[stream] = mediaStream, return mediaStream.
GetOrCreate_Complete ==
  /\ callStack # <<>>
  /\ callStack[Len(callStack)].op = "GetOrCreate"
  /\ LET top == callStack[Len(callStack)]
         r == MediaStream_GetOrCreate_Miss(_streams, msHeap, top.factory, top.stream)
     IN /\ _streams' = r.reg
        /\ msHeap' = r.heap
        /\ scriptRefs' = scriptRefs \cup {r.obj}
        /\ ret' = [NoCall EXCEPT !.op = "GetOrCreate", !.arg = top.stream,
                                 !.factory = top.factory, !.value = <<r.obj>>]
  /\ callStack' = SubSeq(callStack, 1, Len(callStack) - 1)
  /\ UNCHANGED <<_tracks, mstHeap, rcvHeap, audio, video, tasks, ended>>

\* clone(): Nan::ThrowError("Not yet implemented; ...").
Clone(w) ==
  /\ w \in LiveStreams
  /\ LET r == MediaStream_Clone(msHeap[w])
     IN ret' = [NoCall EXCEPT !.op = "clone", !.self = w,
                              !.thrown = r.thrown, !.promise = r.promise]
  /\ UNCHANGED <<callStack, tasks, ended,
                 _streams, msHeap, _tracks, mstHeap, rcvHeap, audio, video, scriptRefs>>

\* Script code lets go of its last reference to wrapper w.
DropReference(w) ==
  /\ w \in scriptRefs
  /\ scriptRefs' = scriptRefs \ {w}
  /\ ret' = [NoCall EXCEPT !.op = "drop", !.arg = w]
  /\ UNCHANGED <<callStack, tasks, ended,
                 _streams, msHeap, _tracks, mstHeap, rcvHeap, audio, video>>

\* A collection cycle of the scripting heap: every collectable wrapper is deleted,
\* which runs its destructor.
CollectGarbage ==
  /\ LET dead == {w \in StreamPtrs : Collectable(msHeap, scriptRefs, w)}
     IN /\ _streams' = DestroyAll(_streams, dead)
        /\ msHeap' = [w \in DOMAIN msHeap |->
                        IF w \in dead THEN [msHeap[w] EXCEPT !.alive = FALSE]
                        ELSE msHeap[w]]
  /\ ret' = [NoCall EXCEPT !.op = "collect"]
  /\ UNCHANGED <<callStack, tasks, ended, _tracks, mstHeap, rcvHeap, audio, video, scriptRefs>>

\* Wrapper w, which script code no longer reaches, is deleted: its destructor runs
\* and the object is gone.
Destroy(w) ==
  /\ w \in LiveStreams
  /\ w \notin scriptRefs
  /\ _streams' = MediaStream_Destructor(_streams, w)
  /\ msHeap' = [msHeap EXCEPT ![w].alive = FALSE]
  /\ ret' = [NoCall EXCEPT !.op = "~MediaStream", !.self = w]
  /\ UNCHANGED <<callStack, tasks, ended, _tracks, mstHeap, rcvHeap, audio, video, scriptRefs>>

\* --------------------------------------------- actions: streams and tracks
\* Session code has obtained the wrapper of every native stream, in handle order.
TrackInit ==
  /\ _streams = [h \in StreamHandles |-> h]
  /\ msHeap = [h \in StreamHandles |-> NewMediaStream(1, h)]
  /\ _tracks = EmptyMap
  /\ mstHeap = <<>>
  /\ rcvHeap = <<>>
  /\ audio = [s \in StreamHandles |-> <<>>]
  /\ video = [s \in StreamHandles |-> <<>>]
  /\ scriptRefs = StreamHandles
  /\ callStack = <<>>
  /\ tasks = {}
  /\ ended = {}
  /\ ret = NoCall

RECURSIVE NativeCount(_)
NativeCount(S) ==
  IF S = {} THEN 0
  ELSE LET s == Min(S) IN Len(audio[s]) + Len(video[s]) + NativeCount(S \ {s})

\* The engine puts a remote track into a native stream.
NativeAddTrack(s, t) ==
  /\ NativeCount(StreamHandles) < MaxNativeTracks
  /\ IF TrackKind(t) = "audio"
       THEN /\ audio' = [audio EXCEPT ![s] = NativeAdd(@, t)]
            /\ video' = video
       ELSE /\ video' = [video EXCEPT ![s] = NativeAdd(@, t)]
            /\ audio' = audio
  /\ UNCHANGED <<callStack, tasks, ended,
                 _streams, msHeap, _tracks, mstHeap, rcvHeap, scriptRefs, ret>>

\* The engine ends native track t, a track of some stream: its state() is kEnded
\* from then on. A track of no stream is seen by no active accessor.
NativeEndTrack(t) ==
  /\ t \notin ended
  /\ \E s \in StreamHandles : t \in Elems(audio[s]) \cup Elems(video[s])
  /\ ended' = ended \cup {t}
  /\ UNCHANGED <<_streams, msHeap, _tracks, mstHeap, rcvHeap, audio, video, scriptRefs,
                 callStack, tasks, ret>>

\* The active accessor of stream wrapper w.
GetActive(w) ==
  /\ w \in LiveStreams
  /\ ret' = [NoCall EXCEPT !.op = "active", !.self = w,
                           !.value = <<MediaStream_GetActive(msHeap[w], audio, video, ended)>>]
  /\ UNCHANGED <<_streams, msHeap, _tracks, mstHeap, rcvHeap, audio, video, scriptRefs,
                 callStack, tasks, ended>>

\* An enumeration's outcome r becomes the state; the native vectors are only read.
Enumerated(r) ==
  /\ _tracks' = r.reg
  /\ mstHeap' = r.heap
  /\ UNCHANGED <<callStack, tasks, ended,
                 _streams, msHeap, rcvHeap, audio, video, scriptRefs, ret>>

GetAudioTracks(w) ==
  /\ w \in LiveStreams
  /\ Enumerated(MediaStream_GetAudioTracks(msHeap[w], _tracks, mstHeap, audio, video))

GetVideoTracks(w) ==
  /\ w \in LiveStreams
  /\ Enumerated(MediaStream_GetVideoTracks(msHeap[w], _tracks, mstHeap, audio, video))

GetTracks(w) ==
  /\ w \in LiveStreams
  /\ Enumerated(MediaStream_GetTracks(msHeap[w], _tracks, mstHeap, audio, video))

GetTrackById(w, label) ==
  /\ w \in LiveStreams
  /\ Enumerated(MediaStream_GetTrackById(msHeap[w], label, _tracks, mstHeap, audio, video))

AddTrack(w, tw) ==
  /\ w \in LiveStreams
  /\ tw \in 1..Len(mstHeap)
  /\ NativeCount(StreamHandles) < MaxNativeTracks
  /\ LET r == MediaStream_AddTrack(msHeap[w], mstHeap[tw].track, audio, video)
     IN /\ audio' = r.au
        /\ video' = r.vi
  /\ UNCHANGED <<callStack, tasks, ended,
                 _streams, msHeap, _tracks, mstHeap, rcvHeap, scriptRefs, ret>>

RemoveTrack(w, tw) ==
  /\ w \in LiveStreams
  /\ tw \in 1..Len(mstHeap)
  /\ LET r == MediaStream_RemoveTrack(msHeap[w], mstHeap[tw].track, audio, video)
     IN /\ audio' = r.au
        /\ video' = r.vi
  /\ UNCHANGED <<callStack, tasks, ended,
                 _streams, msHeap, _tracks, mstHeap, rcvHeap, scriptRefs, ret>>

\* ---------------------------------------------------- actions: receivers
\* new RTCRtpReceiver(...args): the public constructor, with any argument list.
\* Only a list of two tokens carries a factory, in the first, and a native
\* receiver, in the second. The build declares the member _closed as `decl`.
ConstructReceiver(decl, args) ==
  \E f \in Factories, r \in ReceiverHandles, closed \in ClosedAtConstruction(decl) :
    /\ InvalidConstruction(args) => (f = 1 /\ r = 1 /\ ~closed)
    /\ ~InvalidConstruction(args) => Len(rcvHeap) < MaxReceiverWrappers
    /\ LET c == RTCRtpReceiver_New(rcvHeap, mstHeap, args, f, r, closed)
       IN /\ rcvHeap' = c.rheap
          /\ mstHeap' = c.theap
          /\ ret' = [NoCall EXCEPT !.op = "RTCRtpReceiver",
                                   !.value = IF c.obj = 0 THEN <<>> ELSE <<c.obj>>,
                                   !.thrown = c.thrown]
    /\ UNCHANGED <<callStack, tasks, ended,
                   _streams, msHeap, _tracks, audio, video, scriptRefs>>

\* The owning session closes and tells receiver rw.
PeerConnectionClosed(rw) ==
  /\ rw \in 1..Len(rcvHeap)
  /\ rcvHeap' = [rcvHeap EXCEPT ![rw] = RTCRtpReceiver_OnPeerConnectionClosed(@)]
  /\ ret' = [NoCall EXCEPT !.op = "OnPeerConnectionClosed", !.self = rw]
  /\ UNCHANGED <<callStack, tasks, ended,
                 _streams, msHeap, _tracks, mstHeap, audio, video, scriptRefs>>

\* getContributingSources() while the native receiver would report `native`.
GetContributingSources(rw, native) ==
  /\ rw \in 1..Len(rcvHeap)
  /\ LET r == RTCRtpReceiver_GetContributingSources(rcvHeap[rw], native)
     IN ret' = [NoCall EXCEPT !.op = "getContributingSources", !.self = rw,
                              !.native = native, !.value = r.value,
                              !.queried = r.queried]
  /\ UNCHANGED <<callStack, tasks, ended,
                 _streams, msHeap, _tracks, mstHeap, rcvHeap, audio, video, scriptRefs>>

GetSynchronizationSources(rw, native) ==
  /\ rw \in 1..Len(rcvHeap)
  /\ LET r == RTCRtpReceiver_GetSynchronizationSources(rcvHeap[rw], native)
     IN ret' = [NoCall EXCEPT !.op = "getSynchronizationSources", !.self = rw,
                              !.native = native, !.value = r.value,
                              !.queried = r.queried]
  /\ UNCHANGED <<callStack, tasks, ended,
                 _streams, msHeap, _tracks, mstHeap, rcvHeap, audio, video, scriptRefs>>

\* getParameters(): _receiver->GetParameters() is called whatever _closed is.
GetParameters(rw) ==
  /\ rw \in 1..Len(rcvHeap)
  /\ ret' = [NoCall EXCEPT !.op = "getParameters", !.self = rw, !.queried = TRUE]
  /\ UNCHANGED <<callStack, tasks, ended,
                 _streams, msHeap, _tracks, mstHeap, rcvHeap, audio, video, scriptRefs>>

\* The track accessor: self->_track->handle().
GetTrack(rw) ==
  /\ rw \in 1..Len(rcvHeap)
  /\ ret' = [NoCall EXCEPT !.op = "track", !.self = rw,
                           !.value = <<RTCRtpReceiver_GetTrack(rcvHeap[rw])>>]
  /\ UNCHANGED <<callStack, tasks, ended,
                 _streams, msHeap, _tracks, mstHeap, rcvHeap, audio, video, scriptRefs>>

\* A mutant of the event loop: a task runs whatever the scripting thread is in.
EventLoopTurn_Direct(stack) == TRUE

\* The event loop runs a task only when the scripting thread is in no call.
EventLoopTurn(stack) == stack = <<>>

\* The owning session, on a thread of the engine, closes: the notification for
\* receiver rw is put into the event loop of the scripting thread.
PostPeerConnectionClosed(rw) ==
  /\ rw \in 1..Len(rcvHeap)
  /\ rw \notin tasks
  /\ ~rcvHeap[rw].closed
  /\ tasks' = tasks \cup {rw}
  /\ UNCHANGED <<_streams, msHeap, _tracks, mstHeap, rcvHeap, audio, video, scriptRefs,
                 callStack, ended, ret>>

\* The event loop runs the notification: OnPeerConnectionClosed() of rw.
DeliverPeerConnectionClosed(rw) ==
  /\ rw \in tasks
  /\ EventLoopTurn(callStack)
  /\ tasks' = tasks \ {rw}
  /\ rcvHeap' = [rcvHeap EXCEPT ![rw] = RTCRtpReceiver_OnPeerConnectionClosed(@)]
  /\ ret' = [NoCall EXCEPT !.op = "OnPeerConnectionClosed", !.self = rw]
  /\ UNCHANGED <<_streams, msHeap, _tracks, mstHeap, audio, video, scriptRefs,
                 callStack, ended>>

\* getContributingSources() or getSynchronizationSources() up to the test of
\* _closed (lines 83-85, 98-100): a Closed receiver returns the empty vector, an
\* Open one goes on to the call of GetSources().
GetSources_Enter(rw, op) ==
  /\ rw \in 1..Len(rcvHeap)
  /\ callStack = <<>>
  /\ IF ~rcvHeap[rw].closed
       THEN /\ callStack' = <<[op |-> op, self |-> rw]>>
            /\ UNCHANGED ret
       ELSE /\ ret' = [NoCall EXCEPT !.op = op, !.self = rw]
            /\ UNCHANGED callStack
  /\ UNCHANGED <<_streams, msHeap, _tracks, mstHeap, rcvHeap, audio, video, scriptRefs,
                 tasks, ended>>

\* The rest of the call (lines 86-94, 101-109): _receiver->GetSources() reports
\* `native`, the sources of the call's type are kept and returned.
GetSources_Query(native) ==
  /\ callStack # <<>>
  /\ callStack[Len(callStack)].op \in {"getContributingSources", "getSynchronizationSources"}
  /\ LET top == callStack[Len(callStack)]
     IN ret' = [NoCall EXCEPT !.op = top.op, !.self = top.self, !.native = native,
                              !.queried = TRUE,
                              !.value = IF top.op = "getContributingSources"
                                          THEN SelectSeq(native, IsCSRC)
                                          ELSE SelectSeq(native, IsSSRC)]
  /\ callStack' = SubSeq(callStack, 1, Len(callStack) - 1)
  /\ UNCHANGED <<_streams, msHeap, _tracks, mstHeap, rcvHeap, audio, video, scriptRefs,
                 tasks, ended>>

\* The transport and rtcpTransport accessors: Nan::Null(), whatever the receiver.
GetTransport(rw) ==
  /\ rw \in 1..Len(rcvHeap)
  /\ ret' = [NoCall EXCEPT !.op = "transport", !.self = rw]
  /\ UNCHANGED <<callStack, tasks, ended,
                 _streams, msHeap, _tracks, mstHeap, rcvHeap, audio, video, scriptRefs>>

GetRtcpTransport(rw) ==
  /\ rw \in 1..Len(rcvHeap)
  /\ ret' = [NoCall EXCEPT !.op = "rtcpTransport", !.self = rw]
  /\ UNCHANGED <<callStack, tasks, ended,
                 _streams, msHeap, _tracks, mstHeap, rcvHeap, audio, video, scriptRefs>>

\* RTCRtpReceiver.getCapabilities() in script code, a method of the constructor.
GetCapabilities ==
  /\ LET r == IF "getCapabilities" \in RTCRtpReceiver_StaticMethods
                THEN RTCRtpReceiver_GetCapabilities
                ELSE [thrown |-> "TypeError", promise |-> "none"]
     IN ret' = [NoCall EXCEPT !.op = "getCapabilities",
                              !.thrown = r.thrown, !.promise = r.promise]
  /\ UNCHANGED <<callStack, tasks, ended,
                 _streams, msHeap, _tracks, mstHeap, rcvHeap, audio, video, scriptRefs>>

\* receiver.getStats() in script code: the handler runs when Init has installed it
\* on the prototype; a call of a property that is not there is a TypeError of the
\* scripting engine.
GetStats(rw) ==
  /\ rw \in 1..Len(rcvHeap)
  /\ LET r == IF "getStats" \in RTCRtpReceiver_PrototypeMethods
                THEN RTCRtpReceiver_GetStats(rcvHeap[rw])
                ELSE [thrown |-> "TypeError", promise |-> "none"]
     IN ret' = [NoCall EXCEPT !.op = "getStats", !.self = rw,
                              !.thrown = r.thrown, !.promise = r.promise]
  /\ UNCHANGED <<callStack, tasks, ended,
                 _streams, msHeap, _tracks, mstHeap, rcvHeap, audio, video, scriptRefs>>

\* --------------------------------------------------------- specifications
RegistryNext ==
  \/ \E f \in Factories, h \in StreamHandles : GetOrCreate_Enter(f, h)
  \/ GetOrCreate_Complete
  \/ \E w \in StreamPtrs : Release(w)
  \/ \E w \in StreamPtrs : Clone(w)

Next == RegistryNext

Spec == Init /\ [][Next]_vars

\* The registry and heap after GetOrCreate(1, h) for the native streams 1..n, in
\* handle order, none of which had an entry.
RECURSIVE GetOrCreateEach(_)
GetOrCreateEach(n) ==
  IF n = 0 THEN [reg |-> EmptyMap, heap |-> <<>>, obj |-> 0]
  ELSE LET r == GetOrCreateEach(n - 1)
       IN MediaStream_GetOrCreate_Miss(r.reg, r.heap, 1, n)

\* Session code has obtained the wrapper of every native stream but the last, so
\* the registry holds entries.
CtorInit ==
  /\ LET r == GetOrCreateEach(NumStreams - 1)
     IN /\ _streams = r.reg
        /\ msHeap = r.heap
        /\ scriptRefs = 1..Len(r.heap)
  /\ _tracks = EmptyMap
  /\ mstHeap = <<>>
  /\ rcvHeap = <<>>
  /\ audio = [s \in StreamHandles |-> <<>>]
  /\ video = [s \in StreamHandles |-> <<>>]
  /\ callStack = <<>>
  /\ tasks = {}
  /\ ended = {}
  /\ ret = NoCall

\* The public constructors, called by script code with any argument list.
CtorNext ==
  \/ \E args \in ArgLists : ConstructMediaStream(args)
  \/ \E args \in ArgLists : ConstructReceiver(DeclaredOpen, args)

CtorSpec == CtorInit /\ [][CtorNext]_vars

\* The registry with the scripting heap's collector: the collector runs again and
\* again, so a collection that would delete something is not put off forever.
LifecycleNext ==
  \/ \E f \in Factories, h \in StreamHandles : GetOrCreate_Enter(f, h)
  \/ GetOrCreate_Complete
  \/ \E w \in StreamPtrs : Release(w)
  \/ \E w \in StreamPtrs : DropReference(w)
  \/ CollectGarbage

FairSpec == Init /\ [][LifecycleNext]_vars /\ WF_vars(CollectGarbage)

\* Streams and their tracks, with receivers being constructed beside them.
TrackNext ==
  \/ \E s \in StreamHandles, t \in TrackHandles : NativeAddTrack(s, t)
  \/ \E w \in StreamPtrs : GetAudioTracks(w)
  \/ \E w \in StreamPtrs : GetVideoTracks(w)
  \/ \E w \in StreamPtrs : GetTracks(w)
  \/ \E w \in StreamPtrs, label \in Labels : GetTrackById(w, label)
  \/ \E w \in StreamPtrs, tw \in TrackPtrs : AddTrack(w, tw)
  \/ \E w \in StreamPtrs, tw \in TrackPtrs : RemoveTrack(w, tw)
  \/ ConstructReceiver(DeclaredOpen, TokenArgs)

TrackSpec == TrackInit /\ [][TrackNext]_vars

\* Streams and their tracks alone.
EnumNext ==
  \/ \E s \in StreamHandles, t \in TrackHandles : NativeAddTrack(s, t)
  \/ \E w \in StreamPtrs : GetAudioTracks(w)
  \/ \E w \in StreamPtrs : GetVideoTracks(w)
  \/ \E w \in StreamPtrs : GetTracks(w)
  \/ \E w \in StreamPtrs, label \in Labels : GetTrackById(w, label)
  \/ \E w \in StreamPtrs, tw \in TrackPtrs : AddTrack(w, tw)
  \/ \E w \in StreamPtrs, tw \in TrackPtrs : RemoveTrack(w, tw)

EnumSpec == TrackInit /\ [][EnumNext]_vars

\* The close notification of the session and the accessors of a receiver.
ReceiverCalls ==
  \/ \E rw \in ReceiverPtrs : PeerConnectionClosed(rw)
  \/ \E rw \in ReceiverPtrs, native \in SourceLists : GetContributingSources(rw, native)
  \/ \E rw \in ReceiverPtrs, native \in SourceLists : GetSynchronizationSources(rw, native)
  \/ \E rw \in ReceiverPtrs : GetParameters(rw)
  \/ \E rw \in ReceiverPtrs : GetTrack(rw)
  \/ \E rw \in ReceiverPtrs : GetTransport(rw)
  \/ \E rw \in ReceiverPtrs : GetRtcpTransport(rw)
  \/ \E rw \in ReceiverPtrs : GetStats(rw)
  \/ GetCapabilities

\* Receivers: construction, the session's close notification and the accessors.
ReceiverNext ==
  \/ ConstructReceiver(DeclaredOpen, TokenArgs)
  \/ ReceiverCalls

ReceiverSpec == Init /\ [][ReceiverNext]_vars

\* Receivers of either build: the member is declared with or without its
\* initialiser.
BuildNext ==
  \/ \E decl \in MemberDeclarations : ConstructReceiver(decl, TokenArgs)
  \/ ReceiverCalls

BuildSpec == Init /\ [][BuildNext]_vars

\* The unimplemented operations, beside a registry that fills, the native
\* collections of the first stream and receivers that open and close.
NotImplNext ==
  \/ \E f \in Factories, h \in StreamHandles : GetOrCreate_Enter(f, h)
  \/ GetOrCreate_Complete
  \/ \E t \in TrackHandles : NativeAddTrack(1, t)
  \/ ConstructReceiver(DeclaredOpen, TokenArgs)
  \/ \E rw \in ReceiverPtrs : PeerConnectionClosed(rw)
  \/ \E w \in StreamPtrs : Clone(w)
  \/ \E rw \in ReceiverPtrs : GetStats(rw)
  \/ GetCapabilities

NotImplSpec == Init /\ [][NotImplNext]_vars

\* GetOrCreate calls that can be entered again from inside their constructor.
ReentrantNext ==
  \/ \E f \in Factories, h \in StreamHandles : GetOrCreate_Enter(f, h)
  \/ GetOrCreate_Complete
  \/ \E w \in StreamPtrs : DropReference(w)

ReentrantSpec == Init /\ [][ReentrantNext]_vars

\* The registry with wrappers that are destroyed.
DestroyNext ==
  \/ \E f \in Factories, h \in StreamHandles : GetOrCreate_Enter(f, h)
  \/ GetOrCreate_Complete
  \/ \E w \in StreamPtrs : DropReference(w)
  \/ \E w \in StreamPtrs : Destroy(w)

DestroySpec == Init /\ [][DestroyNext]_vars

\* A receiver whose session closes on an engine thread while script code calls
\* the sources methods.
RaceNext ==
  \/ ConstructReceiver(DeclaredOpen, TokenArgs)
  \/ \E rw \in ReceiverPtrs : PostPeerConnectionClosed(rw)
  \/ \E rw \in ReceiverPtrs : DeliverPeerConnectionClosed(rw)
  \/ \E rw \in ReceiverPtrs :
       \E op \in {"getContributingSources", "getSynchronizationSources"} :
         GetSources_Enter(rw, op)
  \/ \E native \in SourceLists : GetSources_Query(native)

RaceSpec == Init /\ [][RaceNext]_vars

\* Session code has obtained the wrapper of every native stream and, through
\* MediaStreamTrack::GetOrCreate, of every native track, in handle order.
ActiveInit ==
  /\ _streams = [h \in StreamHandles |-> h]
  /\ msHeap = [h \in StreamHandles |-> NewMediaStream(1, h)]
  /\ LET r == WrapEach(Start(EmptyMap, <<>>), 1, [t \in TrackHandles |-> t])
     IN _tracks = r.reg /\ mstHeap = r.heap
  /\ rcvHeap = <<>>
  /\ audio = [s \in StreamHandles |-> <<>>]
  /\ video = [s \in StreamHandles |-> <<>>]
  /\ scriptRefs = StreamHandles
  /\ callStack = <<>>
  /\ tasks = {}
  /\ ended = {}
  /\ ret = NoCall

\* Streams and their active accessor: the engine puts tracks into the first
\* stream and ends tracks, script code moves tracks in and out.
ActiveNext ==
  \/ \E t \in TrackHandles : NativeAddTrack(1, t)
  \/ \E t \in TrackHandles : NativeEndTrack(t)
  \/ \E w \in StreamPtrs, tw \in TrackPtrs : AddTrack(w, tw)
  \/ \E w \in StreamPtrs, tw \in TrackPtrs : RemoveTrack(w, tw)
  \/ \E w \in StreamPtrs : GetActive(w)

ActiveSpec == ActiveInit /\ [][ActiveNext]_vars

\* ================================================================ claims
Registered(w) == w \in Range(_streams)

\* C1 (the claim as stated): a GetOrCreate(ctx, h) that returns while native
\* stream h has a registry entry returns the wrapper of that entry, which is the
\* wrapper the earlier calls for h returned, and leaves the entry as it is; one
\* that returns while h has no entry returns the wrapper it registers; and only a
\* Release of that very wrapper takes the entry away, whatever else is called.
C1_IdentityUniqueness ==
  [][\A h \in StreamHandles :
       /\ (ret' # ret /\ ret'.op = "GetOrCreate" /\ ret'.arg = h) =>
            IF h \in DOMAIN _streams
              THEN ret'.value = <<_streams[h]>> /\ _streams'[h] = _streams[h]
              ELSE h \in DOMAIN _streams' /\ ret'.value = <<_streams'[h]>>
       /\ (h \in DOMAIN _streams /\ ~(ret'.op = "Release" /\ ret'.arg = _streams[h]))
            => (h \in DOMAIN _streams' /\ _streams'[h] = _streams[h])]_vars

\* C3: a constructor call of MediaStream or RTCRtpReceiver with any argument list
\* other than two tokens throws the TypeError, constructs nothing and leaves the
\* heaps as they are; and a step in which a constructor threw changes no
\* registry and no heap. The guard throws before an argument is read, so 1
\* stands for the factory and the native object of a rejected list.
C3_ConstructionGuard ==
  /\ [](\A args \in ArgLists \ {TokenArgs} :
          /\ LET c == MediaStream_New(msHeap, args, 1, 1)
             IN c.thrown = "TypeError" /\ c.obj = 0 /\ c.heap = msHeap
          /\ LET c == RTCRtpReceiver_New(rcvHeap, mstHeap, args, 1, 1, FALSE)
             IN /\ c.thrown = "TypeError" /\ c.obj = 0
                /\ c.rheap = rcvHeap /\ c.theap = mstHeap)
  /\ [][ret'.thrown = "TypeError" =>
          /\ ret'.value = <<>>
          /\ UNCHANGED <<_streams, msHeap, _tracks, mstHeap, rcvHeap>>]_vars

\* C3 witness: a constructor has just thrown while the registry holds an entry.
C3_Witness ==
  /\ ret.op \in {"MediaStream", "RTCRtpReceiver"}
  /\ ret.thrown = "TypeError"
  /\ DOMAIN _streams # {}

\* C4: Release(w) of a wrapper no entry points at leaves the registry as it is and
\* throws nothing, and releasing any wrapper twice leaves what releasing it once
\* leaves.
C4_ReleaseNoOp ==
  /\ [](\A w \in StreamPtrs :
          /\ ~Registered(w) => MediaStream_Release(_streams, w) = _streams
          /\ MediaStream_Release(MediaStream_Release(_streams, w), w)
               = MediaStream_Release(_streams, w))
  /\ [][(ret'.op = "Release" /\ ret'.arg \notin Range(_streams))
          => (_streams' = _streams /\ ret'.thrown = "none")]_vars

\* C4 witness: Release has just been called on a pointer that was never
\* constructed, let alone registered, while the registry holds an entry.
C4_Witness ==
  /\ ret.op = "Release"
  /\ ret.arg > Len(msHeap)
  /\ DOMAIN _streams # {}

\* C10 (the claim as stated): a registered wrapper that script code no longer
\* reaches is in the end deleted by the collector and its entry removed, unless
\* it is handed out again first.
C10_RegistryShrinks ==
  \A w \in StreamPtrs :
    (Registered(w) /\ w \notin scriptRefs) ~> (~Registered(w) \/ w \in scriptRefs)

\* C10, as a collection cycle shows it: when the collector has just run, no entry
\* is left whose wrapper script code no longer reaches, so the registry holds at
\* most one entry per wrapper still in use.
C10_CollectedAfterCycle ==
  ret.op = "collect" =>
    /\ \A w \in StreamPtrs : Registered(w) => w \in scriptRefs
    /\ Cardinality(DOMAIN _streams) <= Cardinality(scriptRefs)

\* C5: a receiver is constructed Open, the close notification leaves it Closed,
\* and no step, a further close notification included, takes a Closed receiver
\* back to Open.
C5_ClosedMonotonic ==
  [][/\ \A rw \in 1..Len(rcvHeap) :
          /\ rw \in 1..Len(rcvHeap')
          /\ rcvHeap[rw].closed => rcvHeap'[rw].closed
     /\ \A rw \in (1..Len(rcvHeap')) \ (1..Len(rcvHeap)) : ~rcvHeap'[rw].closed
     /\ ret'.op = "OnPeerConnectionClosed" => rcvHeap'[ret'.self].closed]_vars

\* C5 witness: an accessor has just been called on a Closed receiver.
C5_Witness ==
  /\ ret.op \in {"getContributingSources", "getSynchronizationSources",
                 "getParameters", "track", "transport", "rtcpTransport"}
  /\ rcvHeap[ret.self].closed

SourceCall == ret.op \in {"getContributingSources", "getSynchronizationSources"}

\* C6: getContributingSources() and getSynchronizationSources() on a Closed
\* receiver return the empty sequence and do not call the native GetSources().
C6_ClosedSourcesEmpty ==
  (SourceCall /\ rcvHeap[ret.self].closed) => (ret.value = <<>> /\ ~ret.queried)

\* C6 witness: getContributingSources() has just been called on a Closed receiver
\* whose native receiver would report a contributing source.
C6_Witness ==
  /\ ret.op = "getContributingSources"
  /\ rcvHeap[ret.self].closed
  /\ \E i \in 1..Len(ret.native) : ret.native[i].type = "CSRC"

\* ------------------------------------------------ claims about tracks
Distinct(vec) == \A i, j \in 1..Len(vec) : vec[i] = vec[j] => i = j

\* C2 (the claim as stated): no two track wrappers wrap the same native track, and
\* a receiver's track is the wrapper the track registry holds for its native track.
C2_OneWrapperPerTrack ==
  /\ \A a, b \in 1..Len(mstHeap) : mstHeap[a].track = mstHeap[b].track => a = b
  /\ \A rw \in 1..Len(rcvHeap) :
       LET t == ReceiverTrack(rcvHeap[rw].receiver)
       IN t \in DOMAIN _tracks => rcvHeap[rw].track = _tracks[t]

\* C7 (the claim as stated): getTrackById(id) on a stream whose video vector holds
\* a track with that identifier, and whose audio vector does not, returns the
\* registered wrapper of that video track; with the identifier in neither vector
\* it returns nothing.
C7_GetTrackByIdFindsVideo ==
  \A w \in LiveStreams : \A label \in Labels :
    LET s == msHeap[w].stream
        inAudio == NativeFind(audio[s], label)
        inVideo == NativeFind(video[s], label)
        r == MediaStream_GetTrackById(msHeap[w], label, _tracks, mstHeap, audio, video)
    IN /\ (inAudio = 0 /\ inVideo # 0) =>
            /\ Len(r.value) = 1
            /\ inVideo \in DOMAIN r.reg
            /\ r.value[1] = r.reg[inVideo]
            /\ r.heap[r.value[1]].track = inVideo
       /\ (inAudio = 0 /\ inVideo = 0) => r.value = <<>>

\* C8: getTracks() on a stream with native audio tracks A and video tracks V returns
\* one wrapper per track of A followed by V, in that order and without repetition,
\* each the wrapper the track registry then holds for its track, so that
\* getAudioTracks() and getVideoTracks() called next return the first Len(A) and
\* the remaining elements of that very result.
C8_TrackAggregation ==
  \A w \in LiveStreams :
    LET s == msHeap[w].stream
        all == audio[s] \o video[s]
        r == MediaStream_GetTracks(msHeap[w], _tracks, mstHeap, audio, video)
        a == MediaStream_GetAudioTracks(msHeap[w], r.reg, r.heap, audio, video)
        v == MediaStream_GetVideoTracks(msHeap[w], r.reg, r.heap, audio, video)
    IN /\ Len(r.value) = Len(all)
       /\ Distinct(r.value)
       /\ \A i \in 1..Len(all) :
            /\ r.heap[r.value[i]].track = all[i]
            /\ r.value[i] = r.reg[all[i]]
       /\ a.value = SubSeq(r.value, 1, Len(audio[s]))
       /\ v.value = SubSeq(r.value, Len(audio[s]) + 1, Len(all))
       /\ a.reg = r.reg /\ v.reg = r.reg

\* C8 witness: a stream with two audio tracks and a video track whose wrappers
\* were registered in one sweep, audio first.
C8_Witness ==
  \E w \in LiveStreams :
    LET s == msHeap[w].stream
    IN /\ Len(audio[s]) = 2 /\ Len(video[s]) = 1
       /\ Elems(audio[s] \o video[s]) \subseteq DOMAIN _tracks
       /\ _tracks[audio[s][1]] = 1
       /\ _tracks[audio[s][2]] = 2
       /\ _tracks[video[s][1]] = 3

\* C9: addTrack(t) and removeTrack(t) change only the native vector of t's kind, and
\* only in the stream they are called on; after addTrack the track is in that
\* vector and getAudioTracks() (getVideoTracks() for a video track) returns a
\* wrapper of it, and after removeTrack it is in that vector no more.
C9_KindCorrectAddRemove ==
  \A w \in LiveStreams : \A tw \in 1..Len(mstHeap) :
    LET s == msHeap[w].stream
        t == mstHeap[tw].track
        add == MediaStream_AddTrack(msHeap[w], t, audio, video)
        rem == MediaStream_RemoveTrack(msHeap[w], t, audio, video)
        got == IF TrackKind(t) = "audio"
                 THEN MediaStream_GetAudioTracks(msHeap[w], _tracks, mstHeap, add.au, add.vi)
                 ELSE MediaStream_GetVideoTracks(msHeap[w], _tracks, mstHeap, add.au, add.vi)
    IN /\ TrackKind(t) = "audio" =>
            /\ add.vi = video /\ rem.vi = video
            /\ t \in Elems(add.au[s]) /\ t \notin Elems(rem.au[s])
            /\ \A x \in Elems(audio[s]) : x \in Elems(add.au[s])
            /\ \A x \in Elems(audio[s]) \ {t} : x \in Elems(rem.au[s])
            /\ \A o \in StreamHandles \ {s} : add.au[o] = audio[o] /\ rem.au[o] = audio[o]
       /\ TrackKind(t) = "video" =>
            /\ add.au = audio /\ rem.au = audio
            /\ t \in Elems(add.vi[s]) /\ t \notin Elems(rem.vi[s])
            /\ \A x \in Elems(video[s]) : x \in Elems(add.vi[s])
            /\ \A x \in Elems(video[s]) \ {t} : x \in Elems(rem.vi[s])
            /\ \A o \in StreamHandles \ {s} : add.vi[o] = video[o] /\ rem.vi[o] = video[o]
       /\ \E i \in 1..Len(got.value) : got.heap[got.value[i]].track = t

\* C9 witness: an audio track that has a wrapper sits in the audio vectors of two
\* streams while the video vectors are empty.
C9_Witness ==
  \E tw \in 1..Len(mstHeap) :
    /\ TrackKind(mstHeap[tw].track) = "audio"
    /\ \A s \in StreamHandles :
         mstHeap[tw].track \in Elems(audio[s]) /\ video[s] = <<>>

\* The native tracks of stream s, of either kind, that are live.
LiveTracks(au, vi, s) == {t \in Elems(au[s]) \cup Elems(vi[s]) : t \notin ended}

\* C19: the active accessor of a stream is TRUE exactly when one of the stream's
\* native audio or video tracks is live, so FALSE for a stream without tracks; it
\* is TRUE after addTrack of a live track and FALSE after removeTrack of the
\* stream's only live track; and a call of the accessor returns that value.
C19_ActiveIffLiveTrack ==
  /\ [](\A w \in LiveStreams :
          LET s == msHeap[w].stream
          IN /\ MediaStream_GetActive(msHeap[w], audio, video, ended)
                  = (LiveTracks(audio, video, s) # {})
             /\ (audio[s] = <<>> /\ video[s] = <<>>) =>
                  ~MediaStream_GetActive(msHeap[w], audio, video, ended)
             /\ \A tw \in 1..Len(mstHeap) :
                  LET t == mstHeap[tw].track
                      add == MediaStream_AddTrack(msHeap[w], t, audio, video)
                      rem == MediaStream_RemoveTrack(msHeap[w], t, audio, video)
                  IN /\ t \notin ended =>
                          MediaStream_GetActive(msHeap[w], add.au, add.vi, ended)
                     /\ LiveTracks(audio, video, s) \subseteq {t} =>
                          ~MediaStream_GetActive(msHeap[w], rem.au, rem.vi, ended))
  /\ [][(ret' # ret /\ ret'.op = "active") =>
          ret'.value = <<LiveTracks(audio, video, msHeap[ret'.self].stream) # {}>>]_vars

\* C19 witness: the accessor has just returned FALSE for a stream that holds a
\* video track, ended, and no audio track, while another stream is active.
C19_Witness ==
  /\ ret.op = "active"
  /\ ret.value = <<FALSE>>
  /\ LET s == msHeap[ret.self].stream
     IN /\ audio[s] = <<>> /\ video[s] # <<>>
        /\ LiveTracks(audio, video, s) = {}
  /\ \E o \in StreamHandles : LiveTracks(audio, video, o) # {}

\* ------------------------------------------------ claims about receivers
\* C11: the constructor of a receiver stores a track wrapper that exists from that
\* step on and wraps the native receiver's track; every step leaves the track
\* field of every receiver, and the wrapper it points at, as they were; and the
\* track accessor returns the stored wrapper, whether the receiver is Open or
\* Closed.
C11_TrackFixedAtConstruction ==
  /\ [](\A rw \in 1..Len(rcvHeap) :
          /\ rcvHeap[rw].track \in 1..Len(mstHeap)
          /\ mstHeap[rcvHeap[rw].track].track = ReceiverTrack(rcvHeap[rw].receiver))
  /\ [][/\ \A rw \in 1..Len(rcvHeap) :
            /\ rcvHeap'[rw].track = rcvHeap[rw].track
            /\ mstHeap'[rcvHeap[rw].track] = mstHeap[rcvHeap[rw].track]
        /\ ret'.op = "track" => ret'.value = <<rcvHeap[ret'.self].track>>]_vars

\* C11 witness: the track accessor has just returned the wrapper of a receiver
\* that is Closed.
C11_Witness ==
  /\ ret.op = "track"
  /\ rcvHeap[ret.self].closed
  /\ ret.value = <<rcvHeap[ret.self].track>>

\* C12 (the claim as stated): a script call of getStats() throws nothing and
\* returns a promise that is already rejected; script calls of getCapabilities()
\* and clone() throw an Error and return nothing; and a step
\* that records a call of any of the three leaves the closed flags, both
\* registries, the heaps and the native collections as they were.
C12_NotImplemented ==
  /\ [](/\ ret.op = "getStats" => (ret.thrown = "none" /\ ret.promise = "rejected")
        /\ ret.op \in {"getCapabilities", "clone"} =>
             (ret.thrown = "Error" /\ ret.promise = "none" /\ ret.value = <<>>))
  /\ [][(ret' # ret /\ ret'.op \in {"getStats", "getCapabilities", "clone"}) =>
          UNCHANGED <<_streams, msHeap, _tracks, mstHeap, rcvHeap, audio, video,
                      scriptRefs, ended>>]_vars

\* ------------------------------------------------ claims about reentrancy
\* C13 (the claim as stated): GetOrCreate calls for one native stream, nested or
\* not, construct one wrapper for it between them and each return the wrapper
\* the registry holds for it.
C13_ReentrantGetOrCreate ==
  /\ \A a, b \in 1..Len(msHeap) : msHeap[a].stream = msHeap[b].stream => a = b
  /\ ret.op = "GetOrCreate" =>
       (ret.arg \in DOMAIN _streams /\ ret.value = <<_streams[ret.arg]>>)

\* C15 (the claim as stated): a GetOrCreate(f, h) that returns from its lookup
\* returns the entry's wrapper and leaves the registry and every wrapper, the
\* returned one's factory and native stream included, as they were, whatever f
\* is; a GetOrCreate that found no entry constructs no wrapper while the registry
\* holds an entry for its handle, and when it returns it has added exactly one
\* entry, for its handle and the wrapper of f and h it constructed, and changed
\* no other entry.
C15_GetOrCreateFrame ==
  [][/\ (ret'.op = "GetOrCreate" /\ Len(callStack') = Len(callStack)) =>
          /\ UNCHANGED <<_streams, msHeap>>
          /\ ret'.value = <<_streams[ret'.arg]>>
     /\ Len(callStack') > Len(callStack) => UNCHANGED <<_streams, msHeap>>
     /\ Len(callStack') < Len(callStack) =>
          /\ ret'.op = "GetOrCreate"
          /\ ret'.arg \notin DOMAIN _streams
          /\ DOMAIN _streams' = DOMAIN _streams \cup {ret'.arg}
          /\ \A k \in DOMAIN _streams : _streams'[k] = _streams[k]
          /\ _streams'[ret'.arg] = Len(msHeap') /\ ret'.value = <<Len(msHeap')>>
          /\ Len(msHeap') = Len(msHeap) + 1
          /\ SubSeq(msHeap', 1, Len(msHeap)) = msHeap
          /\ msHeap'[Len(msHeap')].factory = ret'.factory
          /\ msHeap'[Len(msHeap')].stream = ret'.arg]_vars

\* C20: no wrapper is the value of two entries of the stream registry, so
\* Release(w), which erases the first entry whose value is w, leaves no entry
\* whose value is w.
C20_RegistryInjective ==
  /\ \A h, k \in DOMAIN _streams : _streams[h] = _streams[k] => h = k
  /\ \A w \in StreamPtrs : w \notin Range(MediaStream_Release(_streams, w))
  /\ ret.op = "Release" => ret.arg \notin Range(_streams)

\* C20 witness: Release has just been called on a wrapper that was constructed,
\* hence registered, and another entry is still there.
C20_Witness ==
  /\ ret.op = "Release"
  /\ ret.arg \in 1..Len(msHeap)
  /\ ret.arg \notin Range(_streams)
  /\ DOMAIN _streams # {}

\* C16: however the posting of the close notification falls between the steps of
\* a sources call, a receiver is Open for as long as a sources call on it is
\* between its test of _closed and its call of GetSources(), so GetSources() is
\* never called on a receiver that is Closed.
C16_CloseCannotRaceQuery ==
  /\ [](\A i \in 1..Len(callStack) : ~rcvHeap[callStack[i].self].closed)
  /\ [][(Len(callStack') < Len(callStack)) =>
          /\ ret'.queried
          /\ ret'.self = callStack[Len(callStack)].self
          /\ ~rcvHeap[ret'.self].closed
          /\ ~rcvHeap'[ret'.self].closed]_vars
  /\ []((SourceCall /\ rcvHeap[ret.self].closed) => ~ret.queried)

\* C16 witness: the close notification of a receiver has been posted, and waits,
\* while a sources call on that receiver is past its test of _closed.
C16_Witness ==
  /\ callStack # <<>>
  /\ callStack[1].self \in tasks
  /\ ~rcvHeap[callStack[1].self].closed

\* C17 (the claim as stated): after a call of getParameters,
\* getContributingSources, getSynchronizationSources or of the track, transport
\* or rtcpTransport accessor on a Closed receiver, the native receiver has not
\* been queried and nothing has been thrown.
C17_ClosedNeverQueries ==
  (/\ ret.op \in {"getParameters", "getContributingSources",
                  "getSynchronizationSources", "track", "transport", "rtcpTransport"}
   /\ rcvHeap[ret.self].closed)
    => (~ret.queried /\ ret.thrown = "none")

\* The sources of `native` of one type, as a set; a source is known by its place.
OfType(native, type) == {native[i] : i \in {j \in 1..Len(native) : native[j].type = type}}

InNativeOrder(vec) == \A i, j \in 1..Len(vec) : i < j => vec[i].id < vec[j].id

\* C18: on an Open receiver, for whatever the native receiver reports,
\* getContributingSources() returns its sources of type CSRC and
\* getSynchronizationSources() those of type SSRC, each once and in native order;
\* no source is in both results and every source is in one of them.
C18_SourcesPartition ==
  /\ \A rw \in 1..Len(rcvHeap) : \A native \in SourceLists :
       LET c == RTCRtpReceiver_GetContributingSources(rcvHeap[rw], native)
           y == RTCRtpReceiver_GetSynchronizationSources(rcvHeap[rw], native)
       IN ~rcvHeap[rw].closed =>
            /\ c.queried /\ y.queried
            /\ Elems(c.value) = OfType(native, "CSRC")
            /\ Elems(y.value) = OfType(native, "SSRC")
            /\ InNativeOrder(c.value) /\ InNativeOrder(y.value)
            /\ Elems(c.value) \cap Elems(y.value) = {}
            /\ Elems(c.value) \cup Elems(y.value) = Elems(native)
            /\ Len(c.value) + Len(y.value) = Len(native)
  /\ (ret.op = "getContributingSources" /\ ~rcvHeap[ret.self].closed) =>
       (Elems(ret.value) = OfType(ret.native, "CSRC") /\ InNativeOrder(ret.value))
  /\ (ret.op = "getSynchronizationSources" /\ ~rcvHeap[ret.self].closed) =>
       (Elems(ret.value) = OfType(ret.native, "SSRC") /\ InNativeOrder(ret.value))

\* C18 witness: getSynchronizationSources() has just been called on an Open
\* receiver whose native receiver reports a source of each type.
C18_Witness ==
  /\ ret.op = "getSynchronizationSources"
  /\ ~rcvHeap[ret.self].closed
  /\ OfType(ret.native, "CSRC") # {}
  /\ OfType(ret.native, "SSRC") # {}
  /\ ret.value # <<>>

\* ------------------------------------------------ claims about destruction
\* C14: every value of the stream registry is a wrapper that has not been
\* destroyed; the destructor of a wrapper leaves no entry pointing at it and
\* leaves the other entries as they were; and GetOrCreate for a handle without an
\* entry, such as the handle of a destroyed wrapper, returns a wrapper constructed
\* by that call.
C14_NoDanglingEntry ==
  /\ [](/\ \A h \in DOMAIN _streams :
             _streams[h] \in 1..Len(msHeap) /\ msHeap[_streams[h]].alive
        /\ ret.op = "GetOrCreate" => msHeap[ret.value[1]].alive)
  /\ [][/\ ret'.op = "~MediaStream" =>
             /\ ret'.self \notin Range(_streams')
             /\ \A h \in DOMAIN _streams :
                  _streams[h] # ret'.self =>
                    (h \in DOMAIN _streams' /\ _streams'[h] = _streams[h])
        /\ (Len(callStack') < Len(callStack)
              /\ callStack[Len(callStack)].stream \notin DOMAIN _streams) =>
             /\ ret'.op = "GetOrCreate"
             /\ ret'.value = <<Len(msHeap) + 1>>
             /\ Len(msHeap') = Len(msHeap) + 1
             /\ _streams'[ret'.arg] = Len(msHeap) + 1]_vars

\* C14 witness: GetOrCreate has just returned a live wrapper for a native stream
\* whose earlier wrapper, registered until its destructor ran, is destroyed.
C14_Witness ==
  /\ ret.op = "GetOrCreate"
  /\ msHeap[ret.value[1]].alive
  /\ \E w \in 1..Len(msHeap) :
       /\ ~msHeap[w].alive
       /\ msHeap[w].stream = ret.arg
       /\ w # ret.value[1]

====
